---- MODULE Spec2Model ----
(***************************************************************************)
(* Model of recommender.ipynb: the notebook's code cells, run top to       *)
(* bottom.  The state is the notebook's global variables, the two log      *)
(* files it appends to and the lines it prints; there is one action per    *)
(* cell, and one per loop iteration of the cells that loop.                *)
(*                                                                         *)
(* Representation:                                                         *)
(*  - Python lists are sequences; Python indices are kept 0-based in the   *)
(*    variables that hold them (best_rank_index = -1) and shifted by one   *)
(*    where a sequence is read.                                            *)
(*  - a regularization value is held in hundredths (0.07 is 7).            *)
(*  - an RMSE value sqrt(sum / n) is held as Scale * sum / n, an integer   *)
(*    because n divides Scale; sqrt is strictly increasing on the          *)
(*    non-negative reals, so both "<" and "=" on the held values are "<"   *)
(*    and "=" on the RMSE values.  float('inf') is held as Inf, larger     *)
(*    than every value an RMSE can take.                                   *)
(*  - the ALS library (ALS.train, predictAll, recommendProducts) is not    *)
(*    part of the notebook: the numbers it predicts are chosen             *)
(*    nondeterministically, the shape of what it returns is modelled.      *)
(*  - stdout holds the summary line of cell 14 and the lines of cell 19;   *)
(*    the progress line of a trial repeats what the trial writes to        *)
(*    sparkLogging and is left out.                                        *)
(***************************************************************************)
EXTENDS Integers, Sequences, FiniteSets, TLC

\* ------------------------------------------------------------------ bounds
MaxRecords == 3
MaxRanks == 2
MaxLambdas == 2

\* ---------------------------------------------------------- input domains
\* a user the notebook asks recommendations for (4) and one it does not (2)
UserIds == {2, 4}
ProductIds == {"pA", "pB"}
RankValues == {3, 17}
LambdaValues == {1, 7}
PredValues == {1, 2, 3}

\* --------------------------------------------------- the program's literals
GridIterations == 10
SweepRank == 17
SweepLambda == 7
FinalRank == 17
FinalLambda == 7
FinalIterations == 20
NumRecommendations == 5
IterationsList == <<5, 10, 15, 20>>
RecUsers == <<4, 1, 12, 11, 10>>

\* --------------------------------------------------------------- helpers
Range(s) == {s[k] : k \in DOMAIN s}

SeqsUpTo(S, n) == UNION {[1..k -> S] : k \in 0..n}

RECURSIVE Factorial(_)
Factorial(n) == IF n <= 1 THEN 1 ELSE n * Factorial(n - 1)

RECURSIVE SumOver(_, _)
SumOver(f, S) ==
    IF S = {} THEN 0
    ELSE LET x == CHOOSE y \in S : TRUE IN f[x] + SumOver(f, S \ {x})

\* every order in which a Python set can be iterated
SetOrders(S) ==
    {s \in [1..Cardinality(S) -> S] : \A a, b \in DOMAIN s : a /= b => s[a] /= s[b]}

RECURSIVE SortedSeq(_)
SortedSeq(S) ==
    IF S = {} THEN <<>>
    ELSE LET m == CHOOSE x \in S : \A y \in S : x <= y
         IN <<m>> \o SortedSeq(S \ {m})

\* the subsequence of s at the positions in P, in order
RECURSIVE Pick(_, _)
Pick(s, P) ==
    IF s = <<>> THEN <<>>
    ELSE LET front == Pick(SubSeq(s, 1, Len(s) - 1), P)
         IN IF Len(s) \in P THEN Append(front, s[Len(s)]) ELSE front

\* ------------------------------------------------------------ RMSE values
\* n, the number of scored triples, is at most MaxRecords + 1 (the longest
\* input), so n divides Scale
Scale == Factorial(MaxRecords + 1)
SquaredError(rate, pred) == (rate - pred) * (rate - pred)
\* float('inf'): above Scale times the largest squared error of one triple
Inf == Scale * SquaredError(1, CHOOSE v \in PredValues : \A w \in PredValues : w <= v) + 1

\* ------------------------------------------------------- data preparation
\* a unique() that forgets to drop repeated values
unique_keep_repeats(s) == s

\* pandas Series.unique(): the distinct values in order of first appearance
RECURSIVE unique(_)
unique(s) ==
    IF s = <<>> THEN <<>>
    ELSE LET front == unique(SubSeq(s, 1, Len(s) - 1))
         IN IF s[Len(s)] \in Range(front) THEN front ELSE Append(front, s[Len(s)])

product_column(d) == [k \in DOMAIN d |-> d[k].product_id]

\* {prod: i for i, prod in enumerate(xs)}: a later pair overwrites an earlier one
dict_prod_to_i(xs) ==
    [p \in Range(xs) |->
        CHOOSE i \in 0..(Len(xs) - 1) :
            /\ xs[i + 1] = p
            /\ \A k \in 0..(Len(xs) - 1) : xs[k + 1] = p => k <= i]

\* {i: prod for i, prod in enumerate(xs)}
dict_i_to_prod(xs) == [i \in 0..(Len(xs) - 1) |-> xs[i + 1]]

\* a groupby that gives every user the products of the whole frame
groupby_all_products(d) ==
    [u \in {d[k].user_id : k \in DOMAIN d} |-> {d[k].product_id : k \in DOMAIN d}]

\* df.groupby("user_id").product_id.apply(set)
groupby_product_set(d) ==
    [u \in {d[k].user_id : k \in DOMAIN d} |->
        {d[k].product_id : k \in {n \in DOMAIN d : d[n].user_id = u}}]

Rating(u, p, r) == [user |-> u, product |-> p, rating |-> r]

\* [Rating(user, product_to_ix[item], 1) for user in a.index for item in a[user]]
\* a.index is the sorted group keys; ord[user] is the order the set a[user]
\* is iterated in
RECURSIVE expand_from(_, _, _)
expand_from(index, ord, p2i) ==
    IF index = <<>> THEN <<>>
    ELSE LET user == Head(index)
         IN [k \in 1..Len(ord[user]) |-> Rating(user, p2i[ord[user][k]], 1)]
            \o expand_from(Tail(index), ord, p2i)

expand_user(a, ord, p2i) == expand_from(SortedSeq(DOMAIN a), ord, p2i)

IterationOrders(a) ==
    {ord \in [DOMAIN a -> UNION {SetOrders(a[u]) : u \in DOMAIN a}] :
        \A u \in DOMAIN a : ord[u] \in SetOrders(a[u])}

\* test_RDD.map(lambda x: (x[0], x[1]))
for_predict(rdd) == [k \in DOMAIN rdd |-> <<rdd[k].user, rdd[k].product>>]

\* ---------------------------------------------------------- the ALS library
\* ALS.train(data, rank, seed=seed, iterations=iterations, lambda_=lambda):
\* a model holds factors for the users and the products of the data it was
\* trained on, and for no others
ALS_train(data, r, its, lam) ==
    [rank |-> r, lambda |-> lam, iterations |-> its,
     users |-> {data[k].user : k \in DOMAIN data},
     products |-> {data[k].product : k \in DOMAIN data}]

\* model.predictAll(pairs) rates the pairs whose user and product both have
\* factors in the model; the other pairs are not in its result
\* a predictAll that rates every pair it is given
predictAll_every_pair(m, pairs) == Range(pairs)

predictAll_keys(m, pairs) ==
    {k \in Range(pairs) : k[1] \in m.users /\ k[2] \in m.products}

\* test_RDD.map(lambda r: ((int(r[0]), int(r[1])), float(r[2]))).join(predictions):
\* one element for every key the two sides share
join(rdd, predictions) ==
    [k \in {q \in DOMAIN predictions : \E n \in DOMAIN rdd : <<rdd[n].user, rdd[n].product>> = q} |->
        LET n == CHOOSE n \in DOMAIN rdd : <<rdd[n].user, rdd[n].product>> = k
        IN <<rdd[n].rating, predictions[k]>>]

\* np.sqrt(rates_and_preds.map(lambda r: (r[1][0] - r[1][1])**2).mean());
\* the mean of an RDD with no elements is 0.0
rmse(rp) ==
    IF DOMAIN rp = {} THEN 0
    ELSE (Scale * SumOver([k \in DOMAIN rp |-> SquaredError(rp[k][1], rp[k][2])], DOMAIN rp))
             \div Cardinality(DOMAIN rp)

\* ------------------------------------------------------------ Python lists
\* errors = [[0]*n_lambda] * n_rank: one row object, referenced n_rank times
errors_new(n_lambda, n_rank) ==
    [table |-> [k \in 1..n_rank |-> 1],
     rows |-> <<[n \in 1..n_lambda |-> 0]>>]

\* s[k] for a Python list: a negative k counts from the end
py_in_range(s, k) == -Len(s) <= k /\ k < Len(s)
py_get(s, k) == IF k >= 0 THEN s[k + 1] ELSE s[Len(s) + k + 1]

\* the comparison that decides whether a trial replaces the best so far
\* a comparison that also replaces the best so far on a tie
improves_or_ties(e, best) == e <= best

\* a comparison turned the wrong way round
improves_reversed(e, best) == e > best

\* a comparison that takes every different value for an improvement
improves_differs(e, best) == e /= best

improves(e, best) == e < best

\* with open(name, 'a') as f: f.write(line)
\* a write that opens the file with 'w' and so drops what it held
write_truncating(file, line) == <<line>>

append_line(file, line) == Append(file, line)

\* "RMSE on testing set: {}, with rank: {}, lambda: {}\n".format(error, rank, regParam)
trial_line(e, r, lam) == [error |-> e, rank |-> r, lambda |-> lam]

\* -------------------------------------------------------------- the state
VARIABLES
    pc,                     \* the cell (or loop) that runs next
    exc,                    \* the exception that stopped the run, "" if none
    df,                     \* the (user_id, product_id) rows read from the file
    rawdata, product_to_ix, ix_to_product, ratings, ratingsRDD,
    training_RDD, test_RDD, test_for_predict_RDD,
    ranks, regularization_parameter, iterations,
    errors, error_rows,     \* errors[i] is a reference into error_rows
    min_error, best_lambda, best_lambda_index, best_model, best_rank,
    best_rank_index,
    i, j,                   \* the position of the grid loops (0-based)
    rank, regParam, model, rates_and_preds, error,
    models,                 \* the model objects made so far; model and
                            \* best_model are references into it, 0 is None
    sparkLogging, sparkLoggingBest,   \* the lines of the two log files
    stdout,                 \* the summary and recommendation lines printed
    it_pos, rec_pos         \* the positions of the loops of cells 16 and 19

data_vars == <<df, rawdata, product_to_ix, ix_to_product, ratings, ratingsRDD>>
split_vars == <<training_RDD, test_RDD, test_for_predict_RDD>>
grid_vars == <<ranks, regularization_parameter>>
best_vars == <<min_error, best_lambda, best_lambda_index, best_model, best_rank,
               best_rank_index>>
trial_vars == <<rank, regParam, model, rates_and_preds, error, models>>
table_vars == <<errors, error_rows>>
vars == <<pc, exc, data_vars, split_vars, grid_vars, iterations, table_vars,
          best_vars, i, j, trial_vars, sparkLogging, sparkLoggingBest, stdout,
          it_pos, rec_pos>>

None == 0

\* what the two append-only files hold when the notebook starts: the lines of
\* an earlier run
PriorTrialLog == <<[error |-> 2, rank |-> 9, lambda |-> 9]>>
PriorBestLog ==
    <<[error |-> 2, rank |-> 9, rank_index |-> 0, lambda |-> 9, lambda_index |-> 0]>>

\* the rows of the worked example: (u1, pA), (u1, pB), (u2, pA)
ExampleRows ==
    <<[user_id |-> 2, product_id |-> "pA"], [user_id |-> 2, product_id |-> "pB"],
      [user_id |-> 4, product_id |-> "pA"]>>

\* rows that can be split so that the held-out side has a triple whose user
\* and product are both in the training side and a triple whose product is not
ColdStartRows ==
    <<[user_id |-> 2, product_id |-> "pA"], [user_id |-> 4, product_id |-> "pB"],
      [user_id |-> 2, product_id |-> "pB"], [user_id |-> 2, product_id |-> "pC"]>>

Rows == [user_id : UserIds, product_id : ProductIds]

\* Either any input file of at most MaxRecords rows, or the four rows above,
\* with the one-trial grid of the final fit; or the rows of the worked example
\* with any grid of at most MaxRanks ranks and MaxLambdas regularization values
\* (repeats and empty lists included).
Inputs ==
    \/ /\ df \in SeqsUpTo(Rows, MaxRecords) \cup {ColdStartRows}
       /\ ranks = <<FinalRank>>
       /\ regularization_parameter = <<FinalLambda>>
    \/ /\ df = ExampleRows
       /\ ranks \in SeqsUpTo(RankValues, MaxRanks)
       /\ regularization_parameter \in SeqsUpTo(LambdaValues, MaxLambdas)

Init ==
    /\ Inputs
    /\ pc = "group"
    /\ exc = ""
    /\ rawdata = <<>> /\ product_to_ix = <<>> /\ ix_to_product = <<>>
    /\ ratings = <<>> /\ ratingsRDD = <<>>
    /\ training_RDD = <<>> /\ test_RDD = <<>> /\ test_for_predict_RDD = <<>>
    /\ iterations = 0
    /\ errors = <<>> /\ error_rows = <<>>
    /\ min_error = Inf /\ best_lambda = -1 /\ best_lambda_index = -1
    /\ best_model = None /\ best_rank = -1 /\ best_rank_index = -1
    /\ i = 0 /\ j = 0
    /\ rank = 0 /\ regParam = 0 /\ model = None /\ rates_and_preds = <<>>
    /\ error = 0 /\ models = <<>>
    /\ sparkLogging = PriorTrialLog
    /\ sparkLoggingBest = PriorBestLog
    /\ stdout = <<>>
    /\ it_pos = 0 /\ rec_pos = 0

\* an exception ends the run of the notebook
Raise(name) == pc' = "error" /\ exc' = name

\* cell 3
GroupPurchases ==
    /\ pc = "group"
    /\ rawdata' = groupby_product_set(df)
    /\ pc' = "mappings"
    /\ UNCHANGED <<exc, df, product_to_ix, ix_to_product, ratings, ratingsRDD,
                   split_vars, grid_vars, iterations, table_vars, best_vars, i, j,
                   trial_vars, sparkLogging, sparkLoggingBest, stdout, it_pos, rec_pos>>

\* cell 4
BuildMappings ==
    /\ pc = "mappings"
    /\ product_to_ix' = dict_prod_to_i(unique(product_column(df)))
    /\ ix_to_product' = dict_i_to_prod(unique(product_column(df)))
    /\ pc' = "expand"
    /\ UNCHANGED <<exc, df, rawdata, ratings, ratingsRDD,
                   split_vars, grid_vars, iterations, table_vars, best_vars, i, j,
                   trial_vars, sparkLogging, sparkLoggingBest, stdout, it_pos, rec_pos>>

\* cells 5 and 6
ExpandUsers ==
    /\ pc = "expand"
    /\ \E ord \in IterationOrders(rawdata) :
          /\ ratings' = expand_user(rawdata, ord, product_to_ix)
          /\ ratingsRDD' = ratings'
    /\ pc' = "split"
    /\ UNCHANGED <<exc, df, rawdata, product_to_ix, ix_to_product,
                   split_vars, grid_vars, iterations, table_vars, best_vars, i, j,
                   trial_vars, sparkLogging, sparkLoggingBest, stdout, it_pos, rec_pos>>

\* cell 7: randomSplit sends every element to one of the two sides
RandomSplit ==
    /\ pc = "split"
    /\ \E P \in SUBSET DOMAIN ratingsRDD :
          /\ training_RDD' = Pick(ratingsRDD, P)
          /\ test_RDD' = Pick(ratingsRDD, DOMAIN ratingsRDD \ P)
          /\ test_for_predict_RDD' = for_predict(test_RDD')
    /\ pc' = "grid_setup"
    /\ UNCHANGED <<exc, data_vars, grid_vars, iterations, table_vars, best_vars, i, j,
                   trial_vars, sparkLogging, sparkLoggingBest, stdout, it_pos, rec_pos>>

\* cell 14, lines 423-434: the grid, the errors table and the best-so-far tracker
GridSetup ==
    /\ pc = "grid_setup"
    /\ iterations' = GridIterations
    /\ LET t == errors_new(Len(regularization_parameter), Len(ranks))
       IN errors' = t.table /\ error_rows' = t.rows
    /\ min_error' = Inf
    /\ best_lambda' = -1
    /\ best_lambda_index' = -1
    /\ best_model' = None
    /\ best_rank' = -1
    /\ best_rank_index' = -1
    /\ i' = 0 /\ j' = 0
    /\ pc' = "grid"
    /\ UNCHANGED <<exc, data_vars, split_vars, grid_vars, trial_vars,
                   sparkLogging, sparkLoggingBest, stdout, it_pos, rec_pos>>

\* a trial that moves the held-out triples into the training set
rating_tables_refitted ==
    [training |-> training_RDD \o test_RDD, test |-> <<>>, for_predict |-> <<>>]

\* the rating tables as the body of a trial loop leaves them: the body reads
\* training_RDD, test_RDD and test_for_predict_RDD and assigns none of them
rating_tables_after_trial ==
    [training |-> training_RDD, test |-> test_RDD, for_predict |-> test_for_predict_RDD]

\* the lines this run has appended to sparkLogging
Appended == SubSeq(sparkLogging, Len(PriorTrialLog) + 1, Len(sparkLogging))

\* ALS.train is given a fixed seed: the same training set, rank and
\* regularization value give the same model, hence the same RMSE
SameAsBefore(r, lam, e) ==
    \A k \in DOMAIN Appended :
        (Appended[k].rank = r /\ Appended[k].lambda = lam) => Appended[k].error = e

GridDone == i >= Len(ranks) \/ Len(regularization_parameter) = 0

\* cell 14, lines 438-454: the body of the two loops for (ranks[i],
\* regularization_parameter[j]), then the step to the next pair
Trial ==
    /\ pc = "grid"
    /\ ~GridDone
    /\ LET r == ranks[i + 1]
           lam == regularization_parameter[j + 1]
           m == ALS_train(training_RDD, r, iterations, lam)
           keys == predictAll_keys(m, test_for_predict_RDD)
       IN /\ rank' = r
          /\ regParam' = lam
          /\ \/ \* the library refuses an empty training set
                /\ training_RDD = <<>>
                /\ Raise("ALS.train")
                /\ UNCHANGED <<model, rates_and_preds, error, models, i, j,
                               table_vars, best_vars, sparkLogging>>
             \/ \E predictions \in [keys -> PredValues] :
                   LET rp == join(test_RDD, predictions)
                       e == rmse(rp)
                   IN /\ SameAsBefore(r, lam, e)
                      /\ models' = Append(models, m)
                      /\ model' = Len(models) + 1
                      /\ rates_and_preds' = rp
                      /\ error' = e
                      /\ error_rows' = [error_rows EXCEPT ![errors[i + 1]][j + 1] = e]
                      /\ errors' = errors
                      /\ IF improves(e, min_error)
                         THEN /\ min_error' = e
                              /\ best_lambda' = lam
                              /\ best_model' = Len(models) + 1
                              /\ best_rank' = r
                              /\ best_rank_index' = i
                              /\ best_lambda_index' = j
                         ELSE UNCHANGED best_vars
                      /\ sparkLogging' = append_line(sparkLogging, trial_line(e, r, lam))
                      /\ IF j + 1 < Len(regularization_parameter)
                         THEN i' = i /\ j' = j + 1
                         ELSE i' = i + 1 /\ j' = 0
                      /\ pc' = "grid"
                      /\ exc' = exc
    /\ training_RDD' = rating_tables_after_trial.training
    /\ test_RDD' = rating_tables_after_trial.test
    /\ test_for_predict_RDD' = rating_tables_after_trial.for_predict
    /\ UNCHANGED <<data_vars, grid_vars, iterations,
                   sparkLoggingBest, stdout, it_pos, rec_pos>>

\* cell 14, line 457, reached when the loops are over
Summary ==
    /\ pc = "grid"
    /\ GridDone
    /\ rank' = IF ranks /= <<>> THEN ranks[Len(ranks)] ELSE rank
    /\ stdout' = Append(stdout, [line |-> "best", lambda |-> best_lambda,
                                 rank |-> best_rank, rmse |-> min_error])
    /\ pc' = "best_log"
    /\ UNCHANGED <<exc, data_vars, split_vars, grid_vars, iterations, table_vars,
                   best_vars, i, j, regParam, model, rates_and_preds, error, models,
                   sparkLogging, sparkLoggingBest, it_pos, rec_pos>>

\* cell 14, lines 459-460: the arguments of format() are evaluated before
\* anything is written
BestLog ==
    /\ pc = "best_log"
    /\ IF py_in_range(errors, best_rank_index)
          /\ py_in_range(error_rows[py_get(errors, best_rank_index)], best_lambda_index)
       THEN /\ sparkLoggingBest' = append_line(sparkLoggingBest,
                   [error |-> py_get(error_rows[py_get(errors, best_rank_index)],
                                     best_lambda_index),
                    rank |-> best_rank, rank_index |-> best_lambda_index,
                    lambda |-> best_lambda, lambda_index |-> best_lambda_index])
            /\ pc' = "sweep_setup"
            /\ exc' = exc
       ELSE /\ Raise("IndexError")
            /\ sparkLoggingBest' = sparkLoggingBest
    /\ UNCHANGED <<data_vars, split_vars, grid_vars, iterations, table_vars,
                   best_vars, i, j, trial_vars, sparkLogging, stdout, it_pos, rec_pos>>

\* cell 16, lines 510-513
IterationSetup ==
    /\ pc = "sweep_setup"
    /\ iterations' = IterationsList
    /\ regParam' = SweepLambda
    /\ rank' = SweepRank
    /\ it_pos' = 0
    /\ pc' = "sweep"
    /\ UNCHANGED <<exc, data_vars, split_vars, grid_vars, table_vars, best_vars, i, j,
                   model, rates_and_preds, error, models,
                   sparkLogging, sparkLoggingBest, stdout, rec_pos>>

\* cell 16, lines 515-520: one iteration of the loop over the iteration counts
IterationTrial ==
    /\ pc = "sweep"
    /\ LET iteration == iterations[it_pos + 1]
           m == ALS_train(training_RDD, rank, iteration, SweepLambda)
           keys == predictAll_keys(m, test_for_predict_RDD)
       IN \/ /\ training_RDD = <<>>
             /\ Raise("ALS.train")
             /\ UNCHANGED <<model, rates_and_preds, error, models, it_pos>>
          \/ \E predictions \in [keys -> PredValues] :
                LET rp == join(test_RDD, predictions)
                    e == rmse(rp)
                IN /\ iteration = GridIterations => SameAsBefore(rank, SweepLambda, e)
                   /\ models' = Append(models, m)
                   /\ model' = Len(models) + 1
                   /\ rates_and_preds' = rp
                   /\ error' = e
                   /\ it_pos' = it_pos + 1
                   /\ pc' = IF it_pos + 1 < Len(iterations) THEN "sweep" ELSE "final"
                   /\ exc' = exc
    /\ training_RDD' = rating_tables_after_trial.training
    /\ test_RDD' = rating_tables_after_trial.test
    /\ test_for_predict_RDD' = rating_tables_after_trial.for_predict
    /\ UNCHANGED <<data_vars, grid_vars, iterations, table_vars, best_vars,
                   i, j, rank, regParam, sparkLogging, sparkLoggingBest, stdout, rec_pos>>

\* cell 18, line 549
FinalTrain ==
    /\ pc = "final"
    /\ \/ /\ ratingsRDD = <<>>
          /\ Raise("ALS.train")
          /\ UNCHANGED <<model, models>>
       \/ /\ models' = Append(models,
                  ALS_train(ratingsRDD, FinalRank, FinalIterations, FinalLambda))
          /\ model' = Len(models) + 1
          /\ pc' = "recommend"
          /\ exc' = exc
    /\ rec_pos' = 0
    /\ UNCHANGED <<data_vars, split_vars, grid_vars, iterations, table_vars, best_vars,
                   i, j, rank, regParam, rates_and_preds, error,
                   sparkLogging, sparkLoggingBest, stdout, it_pos>>

\* model.recommendProducts(user, num): the num products of the model with the
\* highest predicted score for the user, best first; by_score is the products
\* of the model in descending order of that score.  Nothing is left out but
\* the products beyond the first num.
recommendProducts(by_score, num) ==
    SubSeq(by_score, 1, IF Len(by_score) < num THEN Len(by_score) ELSE num)

\* the products the user has in the data the model was trained on
Purchased(user) == {r.product : r \in {q \in Range(ratingsRDD) : q.user = user}}

\* cell 19, lines 619-625: one iteration of the loop over the users
Recommend ==
    /\ pc = "recommend"
    /\ LET user == RecUsers[rec_pos + 1]
           m == models[model]
       IN IF user \notin m.users
          THEN \* the model has no factors for the user
               /\ Raise("lookup")
               /\ UNCHANGED <<stdout, rec_pos>>
          ELSE \E by_score \in SetOrders(m.products) :
                  LET best_5_recommendations ==
                          recommendProducts(by_score, NumRecommendations)
                  IN /\ stdout' = stdout
                            \o <<[line |-> "user", user |-> user]>>
                            \o [k \in DOMAIN best_5_recommendations |->
                                  [line |-> "product", user |-> user,
                                   text |-> ix_to_product[best_5_recommendations[k]]]]
                     /\ rec_pos' = rec_pos + 1
                     /\ pc' = IF rec_pos + 1 < Len(RecUsers) THEN "recommend" ELSE "done"
                     /\ exc' = exc
    /\ UNCHANGED <<data_vars, split_vars, grid_vars, iterations, table_vars, best_vars,
                   i, j, trial_vars, sparkLogging, sparkLoggingBest, it_pos>>

Next ==
    \/ GroupPurchases
    \/ BuildMappings
    \/ ExpandUsers
    \/ RandomSplit
    \/ GridSetup
    \/ Trial
    \/ Summary
    \/ BestLog
    \/ IterationSetup
    \/ IterationTrial
    \/ FinalTrain
    \/ Recommend

Spec == Init /\ [][Next]_vars

\* ------------------------------------------------------ checked properties
GridNonEmpty == ranks /= <<>> /\ regularization_parameter /= <<>>

\* the loops of cell 14 are over
AfterSweep == pc \in {"best_log", "sweep_setup", "sweep", "final", "recommend", "done"}

\* the position, in the lines appended to sparkLogging, of the trial of
\* ranks[a] and regularization_parameter[b] (a, b 0-based)
TrialNo(a, b) == a * Len(regularization_parameter) + b + 1

\* C1: after the sweep over a non-empty grid, (best_rank, best_lambda) is the
\* pair of a trial whose RMSE is the minimum over all trials, and no trial
\* before it in iteration order (ranks outer, regularization values inner)
\* reaches that minimum.
C1_BestIsFirstMinimum ==
    (AfterSweep /\ GridNonEmpty) =>
        /\ Len(Appended) = Len(ranks) * Len(regularization_parameter)
        /\ best_rank_index \in 0..(Len(ranks) - 1)
        /\ best_lambda_index \in 0..(Len(regularization_parameter) - 1)
        /\ best_rank = ranks[best_rank_index + 1]
        /\ best_lambda = regularization_parameter[best_lambda_index + 1]
        /\ LET b == TrialNo(best_rank_index, best_lambda_index)
           IN /\ Appended[b].error = min_error
              /\ \A k \in DOMAIN Appended : Appended[k].error >= min_error
              /\ \A k \in 1..(b - 1) : Appended[k].error > min_error

\* a sweep in which a later trial ties with the selected one, and another
\* trial is worse
C1_Witness ==
    /\ AfterSweep /\ GridNonEmpty
    /\ \E k \in DOMAIN Appended :
          /\ k > TrialNo(best_rank_index, best_lambda_index)
          /\ Appended[k].error = min_error
          /\ <<Appended[k].rank, Appended[k].lambda>> /= <<best_rank, best_lambda>>
    /\ \E k \in DOMAIN Appended : Appended[k].error > min_error

\* C2: no product printed as a recommendation for a user is a product that
\* user has in the data the final model was trained on.
C2_NoPurchasedProductRecommended ==
    \A k \in DOMAIN stdout :
        stdout[k].line = "product" =>
            product_to_ix[stdout[k].text] \notin Purchased(stdout[k].user)

\* the best-trial log has received the line of this run
BestLogged == Len(sparkLoggingBest) > Len(PriorBestLog)

\* C3: the line appended to sparkLoggingBest holds best_rank, best_lambda and
\* the RMSE computed for the trial (best_rank, best_lambda), which is min_error.
C3_BestLogRecordsBest ==
    BestLogged =>
        LET line == sparkLoggingBest[Len(sparkLoggingBest)]
        IN /\ line.rank = best_rank
           /\ line.lambda = best_lambda
           /\ line.error = min_error

\* C4: sparkLogging is append-only and gets one line per trial, written by the
\* trial itself with its own rank, regularization value and RMSE; after the
\* sweep the lines added are those of the trials in iteration order,
\* len(ranks) * len(regularization_parameter) of them, after the lines the file
\* already held.
C4_TrialLogAppendOnly ==
    /\ [][IF pc = "grid" /\ pc' = "grid"
          THEN sparkLogging' =
                  Append(sparkLogging,
                         [error |-> error', rank |-> ranks[i + 1],
                          lambda |-> regularization_parameter[j + 1]])
          ELSE sparkLogging' = sparkLogging]_vars
    /\ [](AfterSweep =>
            /\ Len(sparkLogging) =
                  Len(PriorTrialLog) + Len(ranks) * Len(regularization_parameter)
            /\ SubSeq(sparkLogging, 1, Len(PriorTrialLog)) = PriorTrialLog
            /\ \A a \in 0..(Len(ranks) - 1) :
                  \A b \in 0..(Len(regularization_parameter) - 1) :
                      /\ Appended[TrialNo(a, b)].rank = ranks[a + 1]
                      /\ Appended[TrialNo(a, b)].lambda = regularization_parameter[b + 1])

\* a finished sweep of four trials
C4_Witness ==
    /\ AfterSweep
    /\ Len(ranks) = 2 /\ Len(regularization_parameter) = 2
    /\ Len(sparkLogging) = Len(PriorTrialLog) + 4
    /\ \E a, b \in DOMAIN Appended : Appended[a].error /= Appended[b].error

\* the grid search has begun
GridStarted == pc \notin {"group", "mappings", "expand", "split", "grid_setup"}

\* C5: with an empty list of ranks or of regularization values the grid search
\* trains no model, prints no best combination and logs none, and what ends
\* it is an error.
C5_EmptyGridFailsFast ==
    (GridStarted /\ ~GridNonEmpty) =>
        /\ models = <<>>
        /\ \A k \in DOMAIN stdout : stdout[k].line /= "best"
        /\ sparkLoggingBest = PriorBestLog
        /\ pc \notin {"sweep_setup", "sweep", "final", "recommend", "done"}

\* a held-out triple whose user or product has no factors in a model trained
\* on training_RDD
Cold(r) ==
    \/ r.user \notin {training_RDD[k].user : k \in DOMAIN training_RDD}
    \/ r.product \notin {training_RDD[k].product : k \in DOMAIN training_RDD}

\* an RMSE evaluation (of a grid trial or of an iteration-count trial) has
\* been carried out in full
Evaluated == models /= <<>> /\ pc \in {"grid", "best_log", "sweep_setup", "sweep", "final"}

\* C6, as stated: an evaluation that meets a cold-start triple ends in a lookup
\* error, so no evaluation is carried out in full over a held-out set that
\* holds one.
C6_ColdStartRaises ==
    Evaluated => \A r \in Range(test_RDD) : ~Cold(r)

\* C6, amended: an evaluation raises nothing for a cold-start triple.  The RMSE
\* is computed over exactly the held-out triples whose user and product both
\* have factors; every cold-start triple is left out of it, and none is given
\* a default prediction.
C6_ColdStartDropped ==
    Evaluated =>
        /\ exc = ""
        /\ DOMAIN rates_and_preds =
              {<<r.user, r.product>> : r \in {q \in Range(test_RDD) : ~Cold(q)}}
        /\ error = rmse(rates_and_preds)

\* an evaluation carried out over a held-out set of which one triple is cold
\* and one is not
C6_Witness ==
    /\ Evaluated
    /\ \E r \in Range(test_RDD) : Cold(r)
    /\ \E r \in Range(test_RDD) : ~Cold(r)
    /\ error > 0

\* the cells up to the mappings (cell 4) have run
MappingsBuilt == pc \notin {"group", "mappings"}

\* the cells up to the rating table (cell 5) have run
RatingsBuilt == pc \notin {"group", "mappings", "expand"}

DistinctProducts == {df[k].product_id : k \in DOMAIN df}

\* C7: product_to_ix and ix_to_product are inverse bijections between the
\* distinct products of the input and 0..n-1, and every product index of the
\* rating table resolves to the product of an input row of that user.
C7_MappingsInverse ==
    /\ MappingsBuilt =>
          /\ DOMAIN product_to_ix = DistinctProducts
          /\ DOMAIN ix_to_product = 0..(Cardinality(DistinctProducts) - 1)
          /\ \A p \in DistinctProducts :
                /\ product_to_ix[p] \in DOMAIN ix_to_product
                /\ ix_to_product[product_to_ix[p]] = p
          /\ \A n \in DOMAIN ix_to_product :
                /\ ix_to_product[n] \in DOMAIN product_to_ix
                /\ product_to_ix[ix_to_product[n]] = n
    /\ RatingsBuilt =>
          \A r \in Range(ratings) :
              /\ r.product \in DOMAIN ix_to_product
              /\ [user_id |-> r.user, product_id |-> ix_to_product[r.product]] \in Range(df)

\* mappings built from an input in which a product comes back after another
\* product has been seen
C7_Witness ==
    /\ RatingsBuilt
    /\ Cardinality(DistinctProducts) = 2
    /\ Len(df) = 3
    /\ df[1].product_id = df[3].product_id
    /\ df[1].product_id /= df[2].product_id

\* C8: the rating table holds one triple (user, product_to_ix[product], 1) for
\* each distinct (user, product) pair of the input, once, and nothing else.
C8_RatingsAreDistinctPairs ==
    RatingsBuilt =>
        /\ Range(ratings) =
              {Rating(row.user_id, product_to_ix[row.product_id], 1) : row \in Range(df)}
        /\ Len(ratings) = Cardinality(Range(df))

\* the rating table of an input that repeats a row and has users with
\* different products
C8_Witness ==
    /\ RatingsBuilt
    /\ Len(df) = 3
    /\ df[1] = df[3]
    /\ df[1].user_id /= df[2].user_id
    /\ df[1].product_id /= df[2].product_id

\* C9: after the sweep over a grid of one rank and one regularization value,
\* the best combination is that of the single trial: best_rank, best_lambda,
\* both indices, its RMSE and the model the trial trained.
C9_SingleTrialIsBest ==
    (AfterSweep /\ Len(ranks) = 1 /\ Len(regularization_parameter) = 1) =>
        /\ best_rank = ranks[1]
        /\ best_lambda = regularization_parameter[1]
        /\ best_rank_index = 0
        /\ best_lambda_index = 0
        /\ min_error = Appended[1].error
        /\ best_model = 1
        /\ models[best_model] =
              ALS_train(training_RDD, ranks[1], GridIterations, regularization_parameter[1])

\* a single trial whose RMSE is the largest an evaluation can give
C9_Witness ==
    /\ AfterSweep
    /\ Len(ranks) = 1 /\ Len(regularization_parameter) = 1
    /\ min_error = Inf - 1

\* the final model (cell 18) has been fitted
FinalFitted == pc \in {"recommend", "done"}

\* C10: the model fitted at the end has the rank and the regularization value
\* the grid search retained.
C10_FinalModelUsesBest ==
    FinalFitted =>
        /\ models[model].rank = best_rank
        /\ models[model].lambda = best_lambda

UsersOf(rdd) == {rdd[k].user : k \in DOMAIN rdd}
ProductsOf(rdd) == {rdd[k].product : k \in DOMAIN rdd}

\* the last model object is the one of the final fit (cell 18)
FinalModelMade == pc \in {"recommend", "done"} \/ exc = "lookup"

\* the model objects made by the trials of the two sweeps
TrialModels == 1..(Len(models) - (IF FinalModelMade THEN 1 ELSE 0))

\* C11: no step of the grid search or of the iteration sweep changes
\* training_RDD, test_RDD or test_for_predict_RDD, so every trial's model has
\* factors for the users and products of the one training set, and every
\* evaluation scores pairs of the one held-out set.
C11_RatingTablesReadOnly ==
    /\ [][(pc \in {"grid", "best_log", "sweep_setup", "sweep"}) =>
            (training_RDD' = training_RDD
             /\ test_RDD' = test_RDD
             /\ test_for_predict_RDD' = test_for_predict_RDD)]_vars
    /\ [](GridStarted =>
            /\ test_for_predict_RDD = for_predict(test_RDD)
            /\ DOMAIN rates_and_preds \subseteq Range(test_for_predict_RDD)
            /\ \A k \in TrialModels :
                  /\ models[k].users = UsersOf(training_RDD)
                  /\ models[k].products = ProductsOf(training_RDD))

\* both sweeps are over, after four grid trials and the four iteration
\* trials, with triples on both sides of the split
C11_Witness ==
    /\ pc = "final"
    /\ Len(models) = 8
    /\ training_RDD /= <<>>
    /\ test_RDD /= <<>>
    /\ DOMAIN rates_and_preds /= {}

\* the tracker as lines 429-434 leave it
TrackerInitial ==
    /\ min_error = Inf
    /\ best_model = None
    /\ best_rank = -1
    /\ best_lambda = -1
    /\ best_rank_index = -1
    /\ best_lambda_index = -1

\* every field of the tracker describes the trial of ranks[best_rank_index]
\* and regularization_parameter[best_lambda_index], a trial already run
TrackerOfOneTrial ==
    /\ best_rank_index \in 0..(Len(ranks) - 1)
    /\ best_lambda_index \in 0..(Len(regularization_parameter) - 1)
    /\ LET b == TrialNo(best_rank_index, best_lambda_index)
       IN /\ b \in DOMAIN Appended
          /\ min_error = Appended[b].error
          /\ best_rank = Appended[b].rank
          /\ best_lambda = Appended[b].lambda
          /\ best_model = b
          /\ models[b].rank = best_rank
          /\ models[b].lambda = best_lambda
    /\ best_rank = ranks[best_rank_index + 1]
    /\ best_lambda = regularization_parameter[best_lambda_index + 1]

\* C12: the tracker is written by the grid search alone (its setup and its
\* trials); at every trial boundary and afterwards it is either as initialised
\* or describes, in all its fields, one trial already run; and a trial never
\* raises min_error.
C12_TrackerCoherent ==
    /\ [][/\ (best_vars' /= best_vars) => (pc \in {"grid_setup", "grid"})
          /\ (pc = "grid") => (min_error' <= min_error)]_vars
    /\ [](GridStarted => (TrackerInitial \/ TrackerOfOneTrial))

\* a trial boundary at which the tracker has been replaced twice and the last
\* trial run did not replace it
C12_Witness ==
    /\ pc = "grid"
    /\ Len(Appended) = 3
    /\ TrialNo(best_rank_index, best_lambda_index) = 2
    /\ Appended[1].error > min_error
    /\ Appended[3].error > min_error

\* errors[a][b] as Python reads it (a, b 0-based)
ErrorsAt(a, b) == error_rows[errors[a + 1]][b + 1]

\* C13: after the sweep, errors[a][b] is the RMSE computed in the trial of
\* ranks[a] and regularization_parameter[b], for every a and b.
C13_ErrorsTableHoldsEveryTrial ==
    AfterSweep =>
        \A a \in 0..(Len(ranks) - 1) :
            \A b \in 0..(Len(regularization_parameter) - 1) :
                ErrorsAt(a, b) = Appended[TrialNo(a, b)].error

\* C14: in the line written to sparkLoggingBest, the index after the rank is
\* the position of that rank in ranks and the index after the lambda is the
\* position of that lambda in regularization_parameter.
C14_BestLogIndices ==
    BestLogged =>
        LET line == sparkLoggingBest[Len(sparkLoggingBest)]
        IN /\ line.rank_index \in 0..(Len(ranks) - 1)
           /\ ranks[line.rank_index + 1] = line.rank
           /\ line.lambda_index \in 0..(Len(regularization_parameter) - 1)
           /\ regularization_parameter[line.lambda_index + 1] = line.lambda

====
